---- MODULE Spec2Model ----
(***************************************************************************)
(* Model of tcdb/hdb.py, the bsddb-like binding of the Tokyo Cabinet hash  *)
(* database.  The binding (class hdb) is translated from src/tcdb/hdb.py.  *)
(* The native engine it forwards to (module tc) and the value codec        *)
(* (module util) are modelled from the design specification: a keyed byte  *)
(* store with a record count, an undo log and a dirty flag, a free-block   *)
(* pool, one shared cursor, a fatal latch and a lock for threads.          *)
(***************************************************************************)
EXTENDS Integers, Sequences, FiniteSets, TLC

VARIABLES
    db,      \* self.db: the native handle together with the file behind it
    depth,   \* number of with-blocks entered on the handle and not yet left
    exc,     \* an exception is in flight inside the innermost with-block
    ret,     \* the last call on the handle and its outcome
    begun,   \* history: records and record count when the transaction began
    prev,    \* history: records and record count before the last call
    gen,     \* the generator object the client iterates with
    thr      \* the client's threads and the handle's lock

vars == <<db, depth, exc, ret, begun, prev, gen, thr>>

----------------------------------------------------------------------------
(* Bounds *)

MaxValLen == 2      \* longest stored value, in bytes
MaxLog == 2         \* most undo entries of one transaction

----------------------------------------------------------------------------
(* Constants of hdb.py *)

FOPEN == 1
FFATAL == 2
OREADER == 1
OWRITER == 2
OCREAT == 4
OTRUNC == 8

\* a default omode that truncates as well
DefaultOmode_trunc == OWRITER + OCREAT + OTRUNC

\* default omode of hdb.open: OWRITER|OCREAT
DefaultOmode == OWRITER + OCREAT

HasFlag(mode, flag) == (mode \div flag) % 2 = 1

----------------------------------------------------------------------------
(* Python objects and their byte encoding (module util).  Bytes are        *)
(* modelled base 2, strings over a two-letter alphabet.                    *)

Char == {"a", "b"}
Byte == {0, 1}

Ord(c) == IF c = "a" THEN 0 ELSE 1
Chr(x) == IF x = 0 THEN "a" ELSE "b"

StrUpTo(n) == UNION {[1..m -> Char] : m \in 0..n}

\* keys used by the client, in bucket order, and the prefixes it searches
KeyOrder == << <<"b">>, <<"b", "a">> >>
Keys == {KeyOrder[i] : i \in 1..Len(KeyOrder)}
Prefixes == {<<>>, <<"a">>, <<"b">>, <<"b", "a">>}
Values == StrUpTo(MaxValLen)

\* util.serialize_obj: the object's bytes and their number
serialize_obj(obj) == <<[i \in 1..Len(obj) |-> Ord(obj[i])], Len(obj)>>

\* util.serialize_value: the raw bytes of a typed value (a string here)
serialize_value(value) == <<[i \in 1..Len(value) |-> Ord(value[i])], Len(value)>>

\* util.deserialize_obj: the object held in the first siz bytes of buf
deserialize_obj(buf, siz) == [i \in 1..siz |-> Chr(buf[i])]

\* width of a native int, in bytes
IntWidth == 2

\* capacity of the free-block pool (fbpmax), in blocks
FbpMax == 2

RECURSIVE Pow2(_)
Pow2(n) == IF n = 0 THEN 1 ELSE 2 * Pow2(n - 1)

IntMax == Pow2(IntWidth - 1) - 1
IntMin == 0 - Pow2(IntWidth - 1)
Nums == IntMin..IntMax

\* the little-endian two's complement bytes of n
EncInt(n) == [i \in 1..IntWidth |-> ((n % Pow2(IntWidth)) \div Pow2(i - 1)) % 2]

RECURSIVE Unsigned(_, _)
Unsigned(buf, i) ==
    IF i > Len(buf) THEN 0 ELSE buf[i] * Pow2(i - 1) + Unsigned(buf, i + 1)

\* util.deserialize_int: the native int held in buf
deserialize_int(buf, siz) ==
    LET u == Unsigned(SubSeq(buf, 1, siz), 1)
    IN  IF u > IntMax THEN u - Pow2(IntWidth) ELSE u

IsPrefix(p, s) == Len(p) <= Len(s) /\ SubSeq(s, 1, Len(p)) = p

----------------------------------------------------------------------------
(* The engine (module tc), from the design specification *)

\* a C pointer: NULL, or the address of a buffer
NULL == [null |-> TRUE, buf |-> <<>>]
Ptr(b) == [null |-> FALSE, buf |-> b]

\* number of buckets of a file that was not tuned: one for each client key
DefaultBnum == Len(KeyOrder)

\* tc.hdb_new: a handle that is not connected to a file
hdb_new ==
    [open |-> FALSE, omode |-> 0, tran |-> FALSE, dirty |-> FALSE,
     recs |-> <<>>, rnum |-> 0, log |-> <<>>, fbn |-> 0, cur |-> 0,
     bnum |-> DefaultBnum, fatal |-> FALSE, torn |-> FALSE, mutex |-> FALSE]

Has(d, k) == k \in DOMAIN d.recs

\* the client's key is stored
Stored(d, key) == Has(d, serialize_obj(key)[1])

\* the handle is connected as a writer
Connected(d) == d.open /\ HasFlag(d.omode, OWRITER)

\* mutations are accepted: a handle latched into the fatal state rejects them
Writable(d) == Connected(d) /\ ~d.fatal

\* explicit repair of a fatal file: the log that could not be replayed goes
Repaired(d) ==
    IF d.fatal
    THEN [d EXCEPT !.fatal = FALSE, !.dirty = FALSE, !.torn = FALSE, !.log = <<>>]
    ELSE d

\* the undo entry written ahead of a mutation of key k
UndoEntry(d, k) ==
    [key |-> k, had |-> Has(d, k), val |-> IF Has(d, k) THEN d.recs[k] ELSE <<>>,
     fbn |-> d.fbn]

Logged(d, k) == IF d.tran THEN Append(d.log, UndoEntry(d, k)) ELSE d.log

\* Free-space allocator.  The alignment is taken large enough for every cell
\* to fill one aligned unit, so every free block fits every request and an
\* overwrite is always done in place; the pool (fbn) is the number of free
\* blocks it tracks.  allocate takes a pooled block if there is one and
\* extends the file otherwise; free beyond the capacity leaks the block.
allocate(d) == IF d.fbn > 0 THEN d.fbn - 1 ELSE 0
free(d) == IF d.fbn < FbpMax THEN d.fbn + 1 ELSE FbpMax

SetRec(d, k, v) ==
    [d EXCEPT !.recs = [x \in (DOMAIN d.recs) \cup {k} |->
                            IF x = k THEN v ELSE d.recs[x]],
              !.rnum = IF Has(d, k) THEN d.rnum ELSE d.rnum + 1,
              !.fbn = IF Has(d, k) THEN d.fbn ELSE allocate(d)]

DelRec(d, k) ==
    [d EXCEPT !.recs = [x \in (DOMAIN d.recs) \ {k} |-> d.recs[x]],
              !.rnum = IF Has(d, k) THEN d.rnum - 1 ELSE d.rnum,
              !.fbn = IF Has(d, k) THEN free(d) ELSE d.fbn]

\* a logged mutation: the undo entry first, then the change in place
Store(d, k, v) == SetRec([d EXCEPT !.log = Logged(d, k)], k, v)
Remove(d, k) == DelRec([d EXCEPT !.log = Logged(d, k)], k)

\* replay of the undo log, last entry first
RECURSIVE Replay(_, _)
Replay(d, log) ==
    IF log = <<>> THEN d
    ELSE LET e == log[Len(log)]
             d1 == IF e.had THEN SetRec(d, e.key, e.val) ELSE DelRec(d, e.key)
         IN  Replay([d1 EXCEPT !.fbn = e.fbn], SubSeq(log, 1, Len(log) - 1))

EndTran(d) == [d EXCEPT !.tran = FALSE, !.dirty = FALSE, !.log = <<>>]

\* tc.hdb_open: recovery of a dirty file comes before the handle is usable;
\* if the log cannot be replayed the handle opens in the fatal state
hdb_open(d, omode) ==
    IF d.open \/ ~HasFlag(omode, OWRITER)
    THEN [db |-> d, result |-> FALSE]
    ELSE LET rec == IF ~d.dirty THEN d
                    ELSE IF d.torn THEN [d EXCEPT !.fatal = TRUE]
                    ELSE EndTran(Replay(d, d.log))
             fil == IF HasFlag(omode, OTRUNC)
                    THEN [rec EXCEPT !.recs = <<>>, !.rnum = 0, !.fbn = 0]
                    ELSE rec
         IN  [db |-> [fil EXCEPT !.open = TRUE, !.omode = omode, !.cur = 0],
              result |-> TRUE]

\* tc.hdb_put: unconditional upsert
hdb_put(d, kbuf, ksiz, vbuf, vsiz) ==
    IF ~Writable(d) THEN [db |-> d, result |-> FALSE]
    ELSE [db |-> Store(d, SubSeq(kbuf, 1, ksiz), SubSeq(vbuf, 1, vsiz)),
          result |-> TRUE]

\* tc.hdb_putkeep: insert only if the key is absent
hdb_putkeep(d, kbuf, ksiz, vbuf, vsiz) ==
    IF ~Writable(d) \/ Has(d, SubSeq(kbuf, 1, ksiz))
    THEN [db |-> d, result |-> FALSE]
    ELSE [db |-> Store(d, SubSeq(kbuf, 1, ksiz), SubSeq(vbuf, 1, vsiz)),
          result |-> TRUE]

\* tc.hdb_putcat: append to the record, or put if absent
hdb_putcat(d, kbuf, ksiz, vbuf, vsiz) ==
    LET k == SubSeq(kbuf, 1, ksiz)
        v == SubSeq(vbuf, 1, vsiz)
    IN  IF ~Writable(d) THEN [db |-> d, result |-> FALSE]
        ELSE [db |-> Store(d, k, IF Has(d, k) THEN d.recs[k] \o v ELSE v),
              result |-> TRUE]

\* tc.hdb_errmsg: the message of an error code
hdb_errmsg(ecode) ==
    CASE ecode = "NotFound" -> "no record found"
      [] ecode = "TypeMismatch" -> "type mismatch"
      [] ecode = "Overflow" -> "overflow"
      [] ecode = "Invalid" -> "invalid operation"
      [] OTHER -> "success"

\* tc.hdb_out: remove the record, NotFound if absent; ecode is the error code
\* the call leaves in the handle (tc.hdb_ecode)
hdb_out(d, kbuf, ksiz) ==
    IF ~Writable(d) THEN [db |-> d, result |-> FALSE, ecode |-> "Invalid"]
    ELSE IF ~Has(d, SubSeq(kbuf, 1, ksiz))
    THEN [db |-> d, result |-> FALSE, ecode |-> "NotFound"]
    ELSE [db |-> Remove(d, SubSeq(kbuf, 1, ksiz)), result |-> TRUE, ecode |-> ""]

\* tc.hdb_vsiz: the size of the record's value, -1 and NotFound if absent
hdb_vsiz(d, kbuf, ksiz) ==
    LET k == SubSeq(kbuf, 1, ksiz)
    IN  IF ~d.open THEN [result |-> -1, ecode |-> "Invalid"]
        ELSE IF ~Has(d, k) THEN [result |-> -1, ecode |-> "NotFound"]
        ELSE [result |-> Len(d.recs[k]), ecode |-> ""]

\* tc.hdb_get: pointer to the value and its size, NULL if absent
hdb_get(d, kbuf, ksiz) ==
    LET k == SubSeq(kbuf, 1, ksiz)
    IN  IF d.open /\ Has(d, k) THEN <<Ptr(d.recs[k]), Len(d.recs[k])>>
        ELSE <<NULL, 0>>

\* tc.hdb_rnum: the record count of the header
hdb_rnum(d) == d.rnum

\* the stored form of the client's keys, by bucket index
BucketOrder == [i \in 1..Len(KeyOrder) |-> serialize_obj(KeyOrder[i])[1]]

\* tc.hdb_fwmkeys: list object of the keys that begin with the prefix, in
\* bucket order; the list is empty, never NULL, when nothing matches
hdb_fwmkeys(d, pbuf, psiz) ==
    LET p == SubSeq(pbuf, 1, psiz)
        Match(k) == d.open /\ Has(d, k) /\ IsPrefix(p, k)
        RECURSIVE Scan(_)
        Scan(i) == IF i > Len(BucketOrder) THEN <<>>
                   ELSE (IF Match(BucketOrder[i]) THEN <<BucketOrder[i]>> ELSE <<>>)
                        \o Scan(i + 1)
    IN  [null |-> FALSE, elems |-> Scan(1)]

\* what tc.hdb_addint hands back when the engine reports an error
AddFail == [ok |-> FALSE, num |-> 0]

\* tc.hdb_addint: read-modify-write of a native int record; the record is
\* created on demand; TypeMismatch and Overflow are errors
hdb_addint(d, kbuf, ksiz, num) ==
    LET k == SubSeq(kbuf, 1, ksiz)
        old == IF Has(d, k) THEN deserialize_int(d.recs[k], Len(d.recs[k])) ELSE 0
        sum == old + num
    IN  IF ~Writable(d) THEN [db |-> d, result |-> AddFail, ecode |-> "Invalid"]
        ELSE IF Has(d, k) /\ Len(d.recs[k]) # IntWidth
        THEN [db |-> d, result |-> AddFail, ecode |-> "TypeMismatch"]
        ELSE IF sum < IntMin \/ sum > IntMax
        THEN [db |-> d, result |-> AddFail, ecode |-> "Overflow"]
        ELSE [db |-> Store(d, k, EncInt(sum)),
              result |-> [ok |-> TRUE, num |-> sum], ecode |-> ""]

\* tc.hdb_tranbegin: AlreadyActive if a transaction is open on the handle
hdb_tranbegin(d) ==
    IF ~Writable(d) \/ d.tran THEN [db |-> d, result |-> FALSE]
    ELSE [db |-> [d EXCEPT !.tran = TRUE, !.dirty = TRUE, !.log = <<>>],
          result |-> TRUE]

\* tc.hdb_trancommit: the log is discarded
hdb_trancommit(d) ==
    IF ~d.open \/ ~d.tran THEN [db |-> d, result |-> FALSE]
    ELSE [db |-> EndTran(d), result |-> TRUE]

\* tc.hdb_tranabort: the log is replayed in reverse, then discarded
hdb_tranabort(d) ==
    IF ~d.open \/ ~d.tran THEN [db |-> d, result |-> FALSE]
    ELSE [db |-> EndTran(Replay(d, d.log)), result |-> TRUE]

\* tc.hdb_vanish: every record is removed, the pool becomes one block over
\* the former record space, the cursor is invalidated; repairs a fatal file
hdb_vanish(d) ==
    LET RECURSIVE Clear(_, _)
        Clear(x, i) == IF i > Len(BucketOrder) THEN x
                       ELSE Clear(IF Has(x, BucketOrder[i])
                                  THEN Remove(x, BucketOrder[i]) ELSE x, i + 1)
    IN  IF ~Connected(d) THEN [db |-> d, result |-> FALSE]
        ELSE [db |-> [Clear(Repaired(d), 1) EXCEPT
                        !.fbn = IF d.rnum + d.fbn > 0 THEN 1 ELSE 0,
                        !.cur = 0],
              result |-> TRUE]

\* tc.hdb_iterinit: the shared cursor goes to the first bucket
hdb_iterinit(d) ==
    IF ~d.open THEN [db |-> d, result |-> FALSE]
    ELSE [db |-> [d EXCEPT !.cur = 1], result |-> TRUE]

\* the first non-empty bucket at or after bucket i, past the end if none
RECURSIVE NextFull(_, _)
NextFull(d, i) ==
    IF i > Len(BucketOrder) \/ Has(d, BucketOrder[i]) THEN i
    ELSE NextFull(d, i + 1)

\* tc.hdb_iternext: the key under the cursor and its size, NULL at the end
\* or when there is no cursor; the cursor moves on
hdb_iternext(d) ==
    IF ~d.open \/ d.cur = 0 THEN [db |-> d, key |-> NULL, siz |-> 0]
    ELSE LET i == NextFull(d, d.cur)
         IN  IF i > Len(BucketOrder)
             THEN [db |-> [d EXCEPT !.cur = i], key |-> NULL, siz |-> 0]
             ELSE [db |-> [d EXCEPT !.cur = i + 1],
                   key |-> Ptr(BucketOrder[i]), siz |-> Len(BucketOrder[i])]

\* tc.hdb_defrag: step free blocks are reclaimed, all of them if step <= 0;
\* records keep their keys and values
hdb_defrag(d, step) ==
    IF ~Writable(d) THEN [db |-> d, result |-> FALSE]
    ELSE [db |-> [d EXCEPT !.fbn = IF step <= 0 \/ step >= d.fbn THEN 0
                                   ELSE d.fbn - step],
          result |-> TRUE]

\* tc.hdb_tranvoid: the log is discarded without replay
hdb_tranvoid(d) ==
    IF ~d.open \/ ~d.tran THEN [db |-> d, result |-> FALSE]
    ELSE [db |-> EndTran(d), result |-> TRUE]

\* Python objects handed to a native function: ints and strings
PyInt(n) == [type |-> "int", n |-> n, s |-> ""]
PyStr(str) == [type |-> "str", n |-> 0, s |-> str]

\* the rebuild of tc.hdb_optimize: the bucket directory gets bnum buckets
\* (it keeps its size if bnum <= 0), the record space is compacted so that no
\* free block is left, the cursor is invalidated, a fatal file is repaired;
\* the alignment, the pool capacity and the options are fixed in this model
Rebuild(d, bnum) ==
    IF ~Connected(d) \/ d.tran THEN [db |-> d, result |-> FALSE, exc |-> ""]
    ELSE [db |-> [Repaired(d) EXCEPT
                    !.bnum = IF bnum > 0 THEN bnum ELSE d.bnum,
                    !.fbn = 0, !.cur = 0],
          result |-> TRUE, exc |-> ""]

\* tc.hdb_optimize(db, bnum, apow, fpow, opts), called with the positional
\* arguments args: the native function takes integers only, and ctypes raises
\* ArgumentError, without calling it, for an argument of another type;
\* arguments left out are 0
hdb_optimize(d, args) ==
    IF \E i \in 1..Len(args) : args[i].type # "int"
    THEN [db |-> d, result |-> FALSE, exc |-> "ArgumentError"]
    ELSE Rebuild(d, IF Len(args) >= 1 THEN args[1].n ELSE 0)

\* tc.hdb_bnum: the number of buckets
hdb_bnum(d) == d.bnum

\* tc.hdb_type: the database type, hash
hdb_type(d) == 0

\* tc.hdb_flags: the additional flags, FOPEN and FFATAL
hdb_flags(d) ==
    (IF d.open THEN FOPEN ELSE 0) + (IF d.fatal THEN FFATAL ELSE 0)

\* tc.hdb_iternext3: key and value under the cursor are written to the two
\* extensible strings, False at the end or when there is no cursor
hdb_iternext3(d) ==
    LET r == hdb_iternext(d)
    IN  IF r.key.null
        THEN [db |-> r.db, result |-> FALSE, xstr_key |-> <<>>, xstr_value |-> <<>>]
        ELSE [db |-> r.db, result |-> TRUE, xstr_key |-> r.key.buf,
              xstr_value |-> d.recs[r.key.buf]]

\* tc.hdb_setmutex: the handle is opted into internal locking; refused on a
\* connected handle
hdb_setmutex(d) ==
    IF d.open THEN [db |-> d, result |-> FALSE]
    ELSE [db |-> [d EXCEPT !.mutex = TRUE], result |-> TRUE]

\* Locking discipline of a handle with a mutex.  h is the lock: the thread
\* that holds the writer lock (0: none), the threads that hold the reader
\* lock, and the thread whose transaction keeps the writer lock (0: none).
\* A mutating call takes the writer lock, which waits for the readers and
\* the writer to leave; a transaction keeps it from begin to commit, and the
\* calls of the thread that owns the transaction run under it; a reading
\* call takes the reader lock, which waits for the writer only.
MayWrite(h, t) == (h.writer = 0 /\ h.readers = {}) \/ (h.writer = t /\ h.tran = t)
MayRead(h, t) == h.writer = 0 \/ (h.writer = t /\ h.tran = t)

\* tc.hdb_putasync: the contract of tc.hdb_put; only the time of the flush
\* differs, which no read in the same process can see
hdb_putasync(d, kbuf, ksiz, vbuf, vsiz) == hdb_put(d, kbuf, ksiz, vbuf, vsiz)

\* tc.hdb_iterinit2: the shared cursor jumps to the record of the key; fails,
\* the cursor where it was, when the key is not stored
hdb_iterinit2(d, kbuf, ksiz) ==
    LET k == SubSeq(kbuf, 1, ksiz)
    IN  IF ~d.open \/ ~Has(d, k) THEN [db |-> d, result |-> FALSE]
        ELSE [db |-> [d EXCEPT !.cur = CHOOSE i \in 1..Len(BucketOrder) :
                                            BucketOrder[i] = k],
              result |-> TRUE]

----------------------------------------------------------------------------
(* The binding: class hdb *)

\* the outcome of a call: the exception raised ("" if none) and the value
\* returned, by type (b: bool, n: int, s: str, l: list of keys); msg is the
\* message of a TCException
Outcome(op, key, e, b, n, s, l) ==
    [op |-> op, key |-> key, exc |-> e, b |-> b, n |-> n, s |-> s, l |-> l,
     call |-> "", msg |-> ""]

Returned(op, key, b, n, s, l) == Outcome(op, key, "", b, n, s, l)
Raised(op, key, e) == Outcome(op, key, e, FALSE, 0, <<>>, <<>>)

\* raise tc.TCException(tc.hdb_errmsg(tc.hdb_ecode(self.db)))
TCException(op, key, ecode) ==
    [Raised(op, key, "TCException") EXCEPT !.msg = hdb_errmsg(ecode)]

\* Python truth value of the int or the error marker tc.hdb_addint returns
Truthy(result) == result.ok /\ result.num # 0

\* no generator object yet
NoGen == [kind |-> "", state |-> "none", ks |-> <<>>, vs |-> <<>>, clean |-> TRUE]

\* the client's threads; thread 0 stands for no thread
Threads == {1, 2}
IdleThread ==
    [pc |-> "idle", op |-> "", key |-> <<>>, value |-> <<>>,
     seen |-> hdb_new]
NoThreads ==
    [asked |-> FALSE, writer |-> 0, readers |-> {}, tran |-> 0,
     t |-> [t \in Threads |-> IdleThread]]

\* history: a suspended generator whose iteration is cut across by a call
\* that changes the records or moves the handle's cursor is no longer clean
Touched(d) ==
    IF gen.state = "running" /\ (d.recs # db.recs \/ d.cur # db.cur)
    THEN [gen EXCEPT !.clean = FALSE]
    ELSE gen

\* what a call on the handle leaves of the generator and the threads
Bystanders == gen' = Touched(db') /\ UNCHANGED thr

\* a call ends: inside a with-block an exception it raised is either handled
\* by the block's body or left in flight towards __exit__
Finish(r) ==
    /\ ret' = r
    /\ prev' = [recs |-> db.recs, rnum |-> db.rnum]
    /\ exc' \in IF r.exc # "" /\ depth > 0 THEN BOOLEAN ELSE {FALSE}
    /\ Bystanders

\* a mutation inside a transaction has room in the undo log
CanLog == db.tran => Len(db.log) < MaxLog

\* calls are made on a connected handle while no exception is in flight
Callable == db.open /\ ~exc

Init ==
    /\ db = hdb_new
    /\ depth = 0
    /\ exc = FALSE
    /\ ret = Returned("__init__", <<>>, FALSE, 0, <<>>, <<>>)
    /\ begun = [recs |-> <<>>, rnum |-> 0]
    /\ prev = [recs |-> <<>>, rnum |-> 0]
    /\ gen = NoGen
    /\ thr = NoThreads

\* hdb.open with the default omode
open ==
    /\ ~db.open
    /\ LET r == hdb_open(db, DefaultOmode)
       IN  /\ db' = r.db
           /\ ret' = IF r.result
                     THEN Returned("open", <<>>, FALSE, 0, <<>>, <<>>)
                     ELSE Raised("open", <<>>, "TCException")
    /\ prev' = [recs |-> db.recs, rnum |-> db.rnum]
    /\ UNCHANGED <<depth, exc, begun>>
    /\ Bystanders

\* put that hands the key's buffer over as the value
put_keyasvalue(key, value) ==
    /\ Callable /\ CanLog
    /\ LET ck == serialize_obj(key)
           cv == serialize_obj(value)
           r == hdb_put(db, ck[1], ck[2], ck[1], ck[2])
       IN  /\ db' = r.db
           /\ Finish(IF ~r.result THEN Raised("put", key, "TCException")
                     ELSE Returned("put", key, r.result, 0, <<>>, <<>>))
    /\ UNCHANGED <<depth, begun>>

\* hdb.put
put(key, value) ==
    /\ Callable /\ CanLog
    /\ LET ck == serialize_obj(key)
           cv == serialize_obj(value)
           r == hdb_put(db, ck[1], ck[2], cv[1], cv[2])
       IN  /\ db' = r.db
           /\ Finish(IF ~r.result THEN Raised("put", key, "TCException")
                     ELSE Returned("put", key, r.result, 0, <<>>, <<>>))
    /\ UNCHANGED <<depth, begun>>

\* putkeep that forwards to tc.hdb_put
putkeep_put(key, value) ==
    /\ Callable /\ CanLog
    /\ LET ck == serialize_obj(key)
           cv == serialize_obj(value)
           r == hdb_put(db, ck[1], ck[2], cv[1], cv[2])
       IN  /\ db' = r.db
           /\ Finish(Returned("putkeep", key, r.result, 0, <<>>, <<>>))
    /\ UNCHANGED <<depth, begun>>

\* hdb.putkeep
putkeep(key, value) ==
    /\ Callable /\ CanLog
    /\ LET ck == serialize_obj(key)
           cv == serialize_obj(value)
           r == hdb_putkeep(db, ck[1], ck[2], cv[1], cv[2])
       IN  /\ db' = r.db
           /\ Finish(Returned("putkeep", key, r.result, 0, <<>>, <<>>))
    /\ UNCHANGED <<depth, begun>>

\* _putcat that forwards to tc.hdb_put
_putcat_put(key, value) ==
    /\ Callable /\ CanLog
    /\ LET ck == serialize_obj(key)
           cv == serialize_value(value)
           r == hdb_put(db, ck[1], ck[2], cv[1], cv[2])
       IN  /\ db' = r.db
           /\ Finish(IF ~r.result THEN Raised("putcat", key, "TCException")
                     ELSE Returned("putcat", key, r.result, 0, <<>>, <<>>))
    /\ UNCHANGED <<depth, begun>>

\* hdb._putcat, reached through putcat_str
_putcat(key, value) ==
    /\ Callable /\ CanLog
    /\ LET ck == serialize_obj(key)
           cv == serialize_value(value)
           r == hdb_putcat(db, ck[1], ck[2], cv[1], cv[2])
       IN  /\ r.result => Len(r.db.recs[ck[1]]) <= MaxValLen
           /\ db' = r.db
           /\ Finish(IF ~r.result THEN Raised("putcat", key, "TCException")
                     ELSE Returned("putcat", key, r.result, 0, <<>>, <<>>))
    /\ UNCHANGED <<depth, begun>>

\* out that passes a key length short by one
out_shortkey(key) ==
    /\ Callable /\ CanLog
    /\ LET ck == serialize_obj(key)
           r == hdb_out(db, ck[1], ck[2] - 1)
       IN  /\ db' = r.db
           /\ Finish(IF ~r.result THEN TCException("out", key, r.ecode)
                     ELSE Returned("out", key, r.result, 0, <<>>, <<>>))
    /\ UNCHANGED <<depth, begun>>

\* hdb.out
out(key) ==
    /\ Callable /\ CanLog
    /\ LET ck == serialize_obj(key)
           r == hdb_out(db, ck[1], ck[2])
       IN  /\ db' = r.db
           /\ Finish(IF ~r.result THEN TCException("out", key, r.ecode)
                     ELSE Returned("out", key, r.result, 0, <<>>, <<>>))
    /\ UNCHANGED <<depth, begun>>

\* hdb._get: the value's pointer and size, KeyError if the pointer is NULL
_get(d, key) ==
    LET ck == serialize_obj(key)
        cv == hdb_get(d, ck[1], ck[2])
    IN  IF cv[1].null THEN [exc |-> "KeyError", c_value |-> <<>>, c_value_len |-> 0]
        ELSE [exc |-> "", c_value |-> cv[1].buf, c_value_len |-> cv[2]]

\* hdb.get as a function of the handle's state
get_(d, key) ==
    LET g == _get(d, key)
    IN  IF g.exc # "" THEN Raised("get", key, g.exc)
        ELSE Returned("get", key, FALSE, 0,
                      deserialize_obj(g.c_value, g.c_value_len), <<>>)

\* hdb.get_int as a function of the handle's state
get_int_(d, key) ==
    LET g == _get(d, key)
    IN  IF g.exc # "" THEN Raised("get_int", key, g.exc)
        ELSE Returned("get_int", key, FALSE,
                      deserialize_int(g.c_value, g.c_value_len), <<>>, <<>>)

\* hdb.get
get(key) ==
    /\ Callable
    /\ UNCHANGED <<db, depth, begun>>
    /\ Finish(get_(db, key))

\* hdb.get_int
get_int(key) ==
    /\ Callable
    /\ UNCHANGED <<db, depth, begun>>
    /\ Finish(get_int_(db, key))

\* __len__ that reports the number of buckets
len_bnum(d) == hdb_bnum(d)

\* hdb.__len__
len_(d) == hdb_rnum(d)

__len__ ==
    /\ Callable
    /\ UNCHANGED <<db, depth, begun>>
    /\ Finish(Returned("__len__", <<>>, FALSE, len_(db), <<>>, <<>>))

\* util.deserialize_objs: the Python list of the objects of a list object
deserialize_objs(tclist) ==
    [i \in 1..Len(tclist.elems) |->
        deserialize_obj(tclist.elems[i], Len(tclist.elems[i]))]

\* fwmkeys that takes an empty list object for a failure
fwmkeys_raiseEmpty(d, prefix) ==
    LET cp == serialize_obj(prefix)
        tclist_objs == hdb_fwmkeys(d, cp[1], cp[2])
    IN  IF tclist_objs.null \/ tclist_objs.elems = <<>>
        THEN Raised("fwmkeys", prefix, "TCException")
        ELSE Returned("fwmkeys", prefix, FALSE, 0, <<>>,
                      deserialize_objs(tclist_objs))

\* hdb.fwmkeys as a function of the handle's state
fwmkeys_(d, prefix) ==
    LET cp == serialize_obj(prefix)
        tclist_objs == hdb_fwmkeys(d, cp[1], cp[2])
    IN  IF tclist_objs.null THEN Raised("fwmkeys", prefix, "TCException")
        ELSE Returned("fwmkeys", prefix, FALSE, 0, <<>>,
                      deserialize_objs(tclist_objs))

\* hdb.fwmkeys
fwmkeys(prefix) ==
    /\ Callable
    /\ UNCHANGED <<db, depth, begun>>
    /\ Finish(fwmkeys_(db, prefix))

\* add_int that returns the engine's number without testing it
add_int_noraise(key, num) ==
    /\ Callable /\ CanLog
    /\ LET ck == serialize_obj(key)
           r == hdb_addint(db, ck[1], ck[2], num)
       IN  /\ db' = r.db
           /\ Finish(Returned("add_int", key, FALSE, r.result.num, <<>>, <<>>))
    /\ UNCHANGED <<depth, begun>>

\* hdb.add_int
add_int(key, num) ==
    /\ Callable /\ CanLog
    /\ LET ck == serialize_obj(key)
           r == hdb_addint(db, ck[1], ck[2], num)
       IN  /\ db' = r.db
           /\ Finish(IF ~Truthy(r.result) THEN TCException("add_int", key, r.ecode)
                     ELSE Returned("add_int", key, FALSE, r.result.num, <<>>, <<>>))
    /\ UNCHANGED <<depth, begun>>

\* tranbegin that does not look at the engine's result
tranbegin_noraise(d) ==
    LET r == hdb_tranbegin(d)
    IN  [db |-> r.db, exc |-> ""]

\* hdb.tranbegin as a function of the handle's state
tranbegin_(d) ==
    LET r == hdb_tranbegin(d)
    IN  [db |-> r.db, exc |-> IF ~r.result THEN "TCException" ELSE ""]

\* hdb.trancommit as a function of the handle's state
trancommit_(d) ==
    LET r == hdb_trancommit(d)
    IN  [db |-> r.db, exc |-> IF ~r.result THEN "TCException" ELSE ""]

\* tranabort that forwards to tc.hdb_trancommit
tranabort_commit(d) ==
    LET r == hdb_trancommit(d)
    IN  [db |-> r.db, exc |-> IF ~r.result THEN "TCException" ELSE ""]

\* hdb.tranabort as a function of the handle's state
tranabort_(d) ==
    LET r == hdb_tranabort(d)
    IN  [db |-> r.db, exc |-> IF ~r.result THEN "TCException" ELSE ""]

Snapshot(d) == [recs |-> d.recs, rnum |-> d.rnum]

\* hdb.tranbegin
tranbegin ==
    /\ Callable
    /\ LET t == tranbegin_(db)
       IN  /\ db' = t.db
           /\ begun' = IF t.exc = "" THEN Snapshot(db) ELSE begun
           /\ Finish(IF t.exc # "" THEN Raised("tranbegin", <<>>, t.exc)
                     ELSE Returned("tranbegin", <<>>, TRUE, 0, <<>>, <<>>))
    /\ UNCHANGED depth

\* hdb.trancommit, called outside with-blocks
trancommit ==
    /\ Callable /\ depth = 0
    /\ LET t == trancommit_(db)
       IN  /\ db' = t.db
           /\ Finish(IF t.exc # "" THEN Raised("trancommit", <<>>, t.exc)
                     ELSE Returned("trancommit", <<>>, TRUE, 0, <<>>, <<>>))
    /\ UNCHANGED <<depth, begun>>

\* hdb.tranabort, called outside with-blocks
tranabort ==
    /\ Callable /\ depth = 0
    /\ LET t == tranabort_(db)
       IN  /\ db' = t.db
           /\ Finish(IF t.exc # "" THEN Raised("tranabort", <<>>, t.exc)
                     ELSE Returned("tranabort", <<>>, TRUE, 0, <<>>, <<>>))
    /\ UNCHANGED <<depth, begun>>

\* hdb.__enter__: the block is entered only if tranbegin did not raise
__enter__ ==
    /\ Callable
    /\ LET t == tranbegin_(db)
       IN  /\ db' = t.db
           /\ begun' = IF t.exc = "" THEN Snapshot(db) ELSE begun
           /\ depth' = IF t.exc = "" THEN depth + 1 ELSE depth
           /\ Finish(IF t.exc # "" THEN Raised("__enter__", <<>>, t.exc)
                     ELSE Returned("__enter__", <<>>, FALSE, 0, <<>>, <<>>))

\* the body of a with-block raises an exception of its own
WithRaise ==
    /\ Callable /\ depth > 0
    /\ exc' = TRUE
    /\ ret' = Raised("raise", <<>>, "Exception")
    /\ prev' = Snapshot(db)
    /\ UNCHANGED <<db, depth, begun>>
    /\ Bystanders

\* what hdb.__exit__ returns: None, so the exception is not suppressed
ExitSuppresses == FALSE

\* __exit__ with the test of type inverted
__exit___inverted ==
    /\ db.open /\ depth > 0
    /\ LET t == IF exc THEN trancommit_(db) ELSE tranabort_(db)
           e == IF t.exc # "" THEN t.exc
                ELSE IF exc /\ ~ExitSuppresses THEN "Exception" ELSE ""
       IN  /\ db' = t.db
           /\ depth' = depth - 1
           /\ exc' = (e # "" /\ depth - 1 > 0)
           /\ ret' = [Outcome("__exit__", <<>>, e, FALSE, 0, <<>>, <<>>)
                         EXCEPT !.call = IF exc THEN "trancommit" ELSE "tranabort"]
    /\ prev' = Snapshot(db)
    /\ UNCHANGED begun
    /\ Bystanders

\* hdb.__exit__(type, value, traceback); type is None iff nothing is in flight
__exit__ ==
    /\ db.open /\ depth > 0
    /\ LET t == IF ~exc THEN trancommit_(db) ELSE tranabort_(db)
           e == IF t.exc # "" THEN t.exc
                ELSE IF exc /\ ~ExitSuppresses THEN "Exception" ELSE ""
       IN  /\ db' = t.db
           /\ depth' = depth - 1
           /\ exc' = (e # "" /\ depth - 1 > 0)
           /\ ret' = [Outcome("__exit__", <<>>, e, FALSE, 0, <<>>, <<>>)
                         EXCEPT !.call = IF ~exc THEN "trancommit" ELSE "tranabort"]
    /\ prev' = Snapshot(db)
    /\ UNCHANGED begun
    /\ Bystanders

\* the process dies: the handle is lost, the file stays as it is
crash ==
    /\ db.open
    /\ db' = [db EXCEPT !.open = FALSE, !.omode = 0, !.tran = FALSE, !.cur = 0]
    /\ depth' = 0
    /\ exc' = FALSE
    /\ ret' = Returned("crash", <<>>, FALSE, 0, <<>>, <<>>)
    /\ prev' = Snapshot(db)
    /\ UNCHANGED begun
    /\ Bystanders

\* vanish that forwards to tc.hdb_iterinit
vanish_iterinit(d) ==
    LET r == hdb_iterinit(d)
    IN  [db |-> r.db, exc |-> IF ~r.result THEN "TCException" ELSE ""]

\* hdb.vanish as a function of the handle's state
vanish_(d) ==
    LET r == hdb_vanish(d)
    IN  [db |-> r.db, exc |-> IF ~r.result THEN "TCException" ELSE ""]

\* a vanish inside a transaction has room in the undo log for every record
CanLogAll == db.tran => Len(db.log) + db.rnum <= MaxLog

\* hdb.vanish
vanish ==
    /\ Callable /\ CanLogAll
    /\ LET t == vanish_(db)
       IN  /\ db' = t.db
           /\ Finish(IF t.exc # "" THEN Raised("vanish", <<>>, t.exc)
                     ELSE Returned("vanish", <<>>, FALSE, 0, <<>>, <<>>))
    /\ UNCHANGED <<depth, begun>>

\* hdb.iterkeys run to its end: iterinit, then iternext until the key is NULL
RECURSIVE iterkeys_loop(_, _)
iterkeys_loop(d, acc) ==
    LET r == hdb_iternext(d)
    IN  IF r.key.null THEN [db |-> r.db, exc |-> "", l |-> acc]
        ELSE iterkeys_loop(r.db, Append(acc, deserialize_obj(r.key.buf, r.siz)))

iterkeys_(d) ==
    LET i == hdb_iterinit(d)
    IN  IF ~i.result THEN [db |-> i.db, exc |-> "TCException", l |-> <<>>]
        ELSE iterkeys_loop(i.db, <<>>)

\* hdb.keys: list(self.iterkeys())
keys ==
    /\ Callable
    /\ LET t == iterkeys_(db)
       IN  /\ db' = t.db
           /\ Finish(IF t.exc # "" THEN Raised("keys", <<>>, t.exc)
                     ELSE Returned("keys", <<>>, FALSE, 0, <<>>, t.l))
    /\ UNCHANGED <<depth, begun>>

\* defrag that leaves the step at the engine's default
defrag_nostep(d, step) ==
    LET r == hdb_defrag(d, 0)
    IN  [db |-> r.db, exc |-> IF ~r.result THEN "TCException" ELSE ""]

\* hdb.defrag as a function of the handle's state
defrag_(d, step) ==
    LET r == hdb_defrag(d, step)
    IN  [db |-> r.db, exc |-> IF ~r.result THEN "TCException" ELSE ""]

\* steps the client asks for
Steps == {-1, 0, 1, 2}

\* hdb.defrag
defrag(step) ==
    /\ Callable
    /\ LET t == defrag_(db, step)
       IN  /\ db' = t.db
           /\ Finish(IF t.exc # "" THEN Raised("defrag", <<>>, t.exc)
                     ELSE Returned("defrag", <<>>, FALSE, 0, <<>>, <<>>))
    /\ UNCHANGED <<depth, begun>>

\* vsiz that takes a size of 0 for the failure as well
vsiz_falsy(d, key) ==
    LET ck == serialize_obj(key)
        r == hdb_vsiz(d, ck[1], ck[2])
    IN  IF r.result <= 0 THEN TCException("vsiz", key, r.ecode)
        ELSE Returned("vsiz", key, FALSE, r.result, <<>>, <<>>)

\* hdb.vsiz as a function of the handle's state
vsiz_(d, key) ==
    LET ck == serialize_obj(key)
        r == hdb_vsiz(d, ck[1], ck[2])
    IN  IF r.result = -1 THEN TCException("vsiz", key, r.ecode)
        ELSE Returned("vsiz", key, FALSE, r.result, <<>>, <<>>)

\* hdb.vsiz
vsiz(key) ==
    /\ Callable
    /\ UNCHANGED <<db, depth, begun>>
    /\ Finish(vsiz_(db, key))

\* tranvoid that forwards to tc.hdb_tranabort
tranvoid_abort(d) ==
    LET r == hdb_tranabort(d)
    IN  [db |-> r.db, exc |-> IF ~r.result THEN "TCException" ELSE ""]

\* hdb.tranvoid as a function of the handle's state
tranvoid_(d) ==
    LET r == hdb_tranvoid(d)
    IN  [db |-> r.db, exc |-> IF ~r.result THEN "TCException" ELSE ""]

\* hdb.tranvoid, called outside with-blocks
tranvoid ==
    /\ Callable /\ depth = 0
    /\ LET t == tranvoid_(db)
       IN  /\ db' = t.db
           /\ Finish(IF t.exc # "" THEN Raised("tranvoid", <<>>, t.exc)
                     ELSE Returned("tranvoid", <<>>, FALSE, 0, <<>>, <<>>))
    /\ UNCHANGED <<depth, begun>>

\* hdb.optimize as a function of the handle's state.  kwargs holds the
\* arguments that are truthy, by name; the call tc.hdb_optimize(self.db,
\* *kwargs) unpacks the dictionary itself, so the positional arguments are
\* its keys, the names, and not the values
optimize_(d, bnum, apow, fpow, opts) ==
    LET given == << <<"bnum", bnum>>, <<"apow", apow>>,
                    <<"fpow", fpow>>, <<"opts", opts>> >>
        IsTruthy(x) == x[2] # 0
        kwargs == SelectSeq(given, IsTruthy)
        args == [i \in 1..Len(kwargs) |-> PyStr(kwargs[i][1])]
        r == hdb_optimize(d, args)
    IN  [db |-> r.db,
         exc |-> IF r.exc # "" THEN r.exc
                 ELSE IF ~r.result THEN "TCException" ELSE "",
         result |-> r.result]

\* bucket numbers and options the client asks for (0: the argument is None)
Bnums == {0, 3}
Opts == {0, 1}

\* hdb.optimize
optimize(bnum, apow, fpow, opts) ==
    /\ Callable
    /\ LET t == optimize_(db, bnum, apow, fpow, opts)
       IN  /\ db' = t.db
           /\ Finish(IF t.exc # "" THEN Raised("optimize", <<>>, t.exc)
                     ELSE Returned("optimize", <<>>, t.result, 0, <<>>, <<>>))
    /\ UNCHANGED <<depth, begun>>

\* hdb.bnum as a function of the handle's state
bnum_(d) == hdb_bnum(d)

\* flags that returns the database type
flags_type(d) == hdb_type(d)

\* hdb.flags as a function of the handle's state
flags_(d) == hdb_flags(d)

\* the process dies while the engine writes the log of the open transaction:
\* the handle is lost, the file stays as it is, with a log that cannot be
\* replayed
crashTorn ==
    /\ db.open /\ db.tran
    /\ db' = [db EXCEPT !.open = FALSE, !.omode = 0, !.tran = FALSE, !.cur = 0,
                        !.torn = TRUE]
    /\ depth' = 0
    /\ exc' = FALSE
    /\ ret' = Returned("crash", <<>>, FALSE, 0, <<>>, <<>>)
    /\ prev' = Snapshot(db)
    /\ UNCHANGED begun
    /\ Bystanders

\* util.deserialize_xstr_obj: the object held in an extensible string
deserialize_xstr_obj(xstr) == deserialize_obj(xstr, Len(xstr))

\* the client resumes a generator at most MaxYield times
MaxYield == 3

\* a generator function is called: the generator object is created, its body
\* does not run yet
NewGen(kind) ==
    /\ Callable
    /\ gen' = [NoGen EXCEPT !.kind = kind, !.state = "created"]
    /\ UNCHANGED <<db, depth, exc, ret, begun, prev, thr>>

\* hdb.iterkeys(), hdb.itervalues(), hdb.iteritems(): the calls
iterkeys == NewGen("keys")
itervalues == NewGen("values")
iteritems == NewGen("items")

\* the generator can be resumed
Resumable(kind) ==
    /\ Callable /\ gen.kind = kind /\ gen.state \in {"created", "running"}
    /\ Len(gen.ks) < MaxYield /\ Len(gen.vs) < MaxYield

\* the head of the three generator bodies, run by the first next():
\* tc.hdb_iterinit, TCException if it fails
iterinit_(d) ==
    IF gen.state = "created" THEN hdb_iterinit(d) ELSE [db |-> d, result |-> TRUE]

\* the body of hdb.iterkeys, run on handle d from where generator g is
\* suspended to its next yield or to its end
iterkeys_body(d, g) ==
    LET i == IF g.state = "created" THEN hdb_iterinit(d)
             ELSE [db |-> d, result |-> TRUE]
        r == hdb_iternext(i.db)
    IN  IF ~i.result
        THEN [db |-> i.db, gen |-> [g EXCEPT !.state = "raised"]]
        ELSE [db |-> r.db,
              gen |-> IF r.key.null THEN [g EXCEPT !.state = "done"]
                      ELSE [g EXCEPT !.state = "running",
                               !.ks = Append(@, deserialize_obj(r.key.buf, r.siz))]]

\* iterkeys whose body does not begin with tc.hdb_iterinit
iterkeys_next_noinit ==
    /\ Resumable("keys")
    /\ LET r == hdb_iternext(db)
       IN  /\ db' = r.db
           /\ gen' = IF r.key.null THEN [gen EXCEPT !.state = "done"]
                     ELSE [gen EXCEPT !.state = "running",
                              !.ks = Append(@, deserialize_obj(r.key.buf, r.siz))]
    /\ UNCHANGED <<depth, exc, ret, begun, prev, thr>>

\* next() on the generator of hdb.iterkeys: the body runs to its next yield
iterkeys_next ==
    /\ Resumable("keys")
    /\ LET b == iterkeys_body(db, gen)
       IN  db' = b.db /\ gen' = b.gen
    /\ UNCHANGED <<depth, exc, ret, begun, prev, thr>>

\* next() on the generator of hdb.itervalues
itervalues_next ==
    /\ Resumable("values")
    /\ LET i == iterinit_(db)
           r == hdb_iternext(i.db)
           cv == hdb_get(r.db, r.key.buf, r.siz)
       IN  IF ~i.result
           THEN db' = i.db /\ gen' = [gen EXCEPT !.state = "raised"]
           ELSE /\ db' = r.db
                /\ gen' = IF r.key.null THEN [gen EXCEPT !.state = "done"]
                          ELSE [gen EXCEPT !.state = "running",
                                   !.vs = Append(@, deserialize_obj(cv[1].buf, cv[2]))]
    /\ UNCHANGED <<depth, exc, ret, begun, prev, thr>>

\* next() on the generator of hdb.iteritems
iteritems_next ==
    /\ Resumable("items")
    /\ LET i == iterinit_(db)
           r == hdb_iternext3(i.db)
       IN  IF ~i.result
           THEN db' = i.db /\ gen' = [gen EXCEPT !.state = "raised"]
           ELSE /\ db' = r.db
                /\ gen' = IF ~r.result THEN [gen EXCEPT !.state = "done"]
                          ELSE [gen EXCEPT !.state = "running",
                                   !.ks = Append(@, deserialize_xstr_obj(r.xstr_key)),
                                   !.vs = Append(@, deserialize_xstr_obj(r.xstr_value))]
    /\ UNCHANGED <<depth, exc, ret, begun, prev, thr>>

\* setmutex that reports success without a call of the engine
setmutex_forget(d) == [db |-> d, result |-> TRUE]

\* hdb.setmutex as a function of the handle's state
setmutex_(d) == hdb_setmutex(d)

\* hdb.setmutex, called by the client before it connects the handle and
\* starts its threads
setmutex ==
    /\ ~exc /\ ~db.open
    /\ \A t \in Threads : thr.t[t].pc = "idle"
    /\ LET r == setmutex_(db)
       IN  /\ db' = r.db
           /\ ret' = Returned("setmutex", <<>>, r.result, 0, <<>>, <<>>)
           /\ thr' = [thr EXCEPT !.asked = @ \/ r.result]
    /\ prev' = Snapshot(db)
    /\ gen' = Touched(db')
    /\ UNCHANGED <<depth, exc, begun>>

\* calls the threads make
ThreadOps == {"put", "out", "get"}
Mutating == {"put", "out"}
ThreadValues == {<<"a">>, <<"b">>}

\* thread t calls hdb.put, hdb.out or hdb.get: the arguments are serialized
\* and the native function is entered; it has to take the handle's lock.
\* The client starts its threads on a handle for which setmutex() returned
\* True.
T_call(t, op, key, value) ==
    /\ Callable /\ thr.asked
    /\ thr.t[t].pc = "idle"
    /\ op \in Mutating => CanLog
    /\ thr' = [thr EXCEPT !.t[t] = [IdleThread EXCEPT !.pc = "wait", !.op = op,
                                       !.key = key, !.value = value]]
    /\ UNCHANGED <<db, depth, exc, ret, begun, prev, gen>>

\* the native function takes the lock, if the handle has a mutex, and reads
\* the handle's state; without a mutex it runs unguarded
T_lock(t) ==
    /\ thr.t[t].pc = "wait"
    /\ LET me == thr.t[t]
           in == [me EXCEPT !.pc = "in", !.seen = db]
       IN  IF ~db.mutex THEN thr' = [thr EXCEPT !.t[t] = in]
           ELSE IF me.op \in Mutating
           THEN /\ MayWrite(thr, t)
                /\ thr' = [thr EXCEPT !.t[t] = in, !.writer = t]
           ELSE /\ MayRead(thr, t)
                /\ thr' = [thr EXCEPT !.t[t] = in,
                                      !.readers = IF thr.writer = t THEN @
                                                  ELSE @ \cup {t}]
    /\ UNCHANGED <<db, depth, exc, ret, begun, prev, gen>>

\* the call of thread t as a function of the state the native function works
\* on: the handle's state afterwards and what the binding hands to the caller
ThreadCall(d, me) ==
    LET ck == serialize_obj(me.key)
        cv == serialize_obj(me.value)
    IN  CASE me.op = "put" ->
               LET r == hdb_put(d, ck[1], ck[2], cv[1], cv[2])
               IN  [db |-> r.db,
                    got |-> [exc |-> IF ~r.result THEN "TCException" ELSE "",
                             s |-> <<>>]]
          [] me.op = "out" ->
               LET r == hdb_out(d, ck[1], ck[2])
               IN  [db |-> r.db,
                    got |-> [exc |-> IF ~r.result THEN "TCException" ELSE "",
                             s |-> <<>>]]
          [] OTHER ->
               [db |-> d, got |-> [exc |-> get_(d, me.key).exc,
                                   s |-> get_(d, me.key).s]]

\* the native function writes what it computed from the state it read,
\* releases the lock and returns to the binding
T_leave(t) ==
    /\ thr.t[t].pc = "in"
    /\ LET me == thr.t[t]
           c == ThreadCall(me.seen, me)
       IN  /\ db' = IF me.op \in Mutating THEN c.db ELSE db
           /\ thr' = [thr EXCEPT
                        !.t[t] = IdleThread,
                        !.writer = IF @ = t /\ thr.tran # t THEN 0 ELSE @,
                        !.readers = @ \ {t}]
    /\ gen' = Touched(db')
    /\ UNCHANGED <<depth, exc, ret, begun, prev>>

\* thread t calls hdb.tranbegin: the transaction takes the writer lock and
\* keeps it
T_tranbegin(t) ==
    /\ Callable /\ thr.asked
    /\ thr.t[t].pc = "idle"
    /\ db.mutex => MayWrite(thr, t) /\ thr.tran = 0
    /\ LET b == tranbegin_(db)
       IN  /\ db' = b.db
           /\ begun' = IF b.exc = "" THEN Snapshot(db) ELSE begun
           /\ thr' = IF b.exc = "" /\ db.mutex
                     THEN [thr EXCEPT !.writer = t, !.tran = t]
                     ELSE thr
    /\ gen' = Touched(db')
    /\ UNCHANGED <<depth, exc, ret, prev>>

\* the thread that owns the transaction calls hdb.trancommit: the lock is
\* released
T_trancommit(t) ==
    /\ Callable
    /\ thr.t[t].pc = "idle"
    /\ db.tran
    /\ db.mutex => thr.tran = t
    /\ LET c == trancommit_(db)
       IN  db' = c.db
    /\ thr' = [thr EXCEPT !.writer = IF @ = t THEN 0 ELSE @,
                          !.tran = IF @ = t THEN 0 ELSE @]
    /\ gen' = Touched(db')
    /\ UNCHANGED <<depth, exc, ret, begun, prev>>

\* putasync that passes the value's length as the length of the key
putasync_keylen(key, value) ==
    /\ Callable /\ CanLog
    /\ LET ck == serialize_obj(key)
           cv == serialize_obj(value)
           r == hdb_putasync(db, ck[1], cv[2], cv[1], cv[2])
       IN  /\ db' = r.db
           /\ Finish(IF ~r.result THEN Raised("putasync", key, "TCException")
                     ELSE Returned("putasync", key, r.result, 0, <<>>, <<>>))
    /\ UNCHANGED <<depth, begun>>

\* hdb.putasync
putasync(key, value) ==
    /\ Callable /\ CanLog
    /\ LET ck == serialize_obj(key)
           cv == serialize_obj(value)
           r == hdb_putasync(db, ck[1], ck[2], cv[1], cv[2])
       IN  /\ db' = r.db
           /\ Finish(IF ~r.result THEN Raised("putasync", key, "TCException")
                     ELSE Returned("putasync", key, r.result, 0, <<>>, <<>>))
    /\ UNCHANGED <<depth, begun>>

\* membership answered by a read that leaves the cursor alone
contains_vsiz(d, key) ==
    LET ck == serialize_obj(key)
    IN  [db |-> d, result |-> hdb_vsiz(d, ck[1], ck[2]).result # -1]

\* hdb.__contains__ as a function of the handle's state
contains_(d, key) ==
    LET ck == serialize_obj(key)
    IN  hdb_iterinit2(d, ck[1], ck[2])

\* hdb.__contains__: key in db
__contains__(key) ==
    /\ Callable
    /\ LET r == contains_(db, key)
       IN  /\ db' = r.db
           /\ Finish(Returned("__contains__", key, r.result, 0, <<>>, <<>>))
    /\ UNCHANGED <<depth, begun>>

\* a second generator of hdb.iterkeys is created and resumed once while the
\* first is suspended
iterkeys_second ==
    /\ Callable /\ gen.kind = "keys" /\ gen.state = "running"
    /\ LET b == iterkeys_body(db, [NoGen EXCEPT !.kind = "keys", !.state = "created"])
       IN  /\ db' = b.db
           /\ Finish(IF b.gen.state = "running"
                     THEN Returned("iterkeys", b.gen.ks[1], FALSE, 0, <<>>, <<>>)
                     ELSE Raised("iterkeys", <<>>, "StopIteration"))
    /\ UNCHANGED <<depth, begun>>

----------------------------------------------------------------------------
(* Specifications *)

\* single-key operations and queries on an open handle
Next ==
    \/ open
    \/ \E key \in Keys, value \in Values : put(key, value)
    \/ \E key \in Keys, value \in Values : putkeep(key, value)
    \/ \E key \in Keys, value \in Values : _putcat(key, value)
    \/ \E key \in Keys : out(key)
    \/ \E key \in Keys : get(key)
    \/ \E key \in Keys : get_int(key)
    \/ \E key \in Keys, num \in Nums : add_int(key, num)
    \/ \E prefix \in Prefixes : fwmkeys(prefix)
    \/ __len__

Spec == Init /\ [][Next]_vars

\* values stored inside transactions
TranValues == {<<"a">>, <<"b">>}

\* transactions, with-blocks, crash and reopen
NextTran ==
    \/ open
    \/ crash
    \/ tranbegin
    \/ trancommit
    \/ tranabort
    \/ tranvoid
    \/ __enter__
    \/ __exit__
    \/ WithRaise
    \/ \E key \in Keys, value \in TranValues : put(key, value)
    \/ \E key \in Keys : out(key)

SpecTran == Init /\ [][NextTran]_vars

\* maintenance of the file: vanish, with the calls that observe its effect
NextMaint ==
    \/ open
    \/ \E key \in Keys, value \in Values : put(key, value)
    \/ \E key \in Keys : out(key)
    \/ \E key \in Keys : get(key)
    \/ __len__
    \/ keys
    \/ vanish
    \/ \E step \in Steps : defrag(step)
    \/ \E key \in Keys : vsiz(key)
    \/ \E bnum \in Bnums, opts \in Opts : optimize(bnum, 0, 0, opts)

SpecMaint == Init /\ [][NextMaint]_vars

\* values and numbers the client stores around a failed recovery
FatalValues == {<<"a">>}
FatalNums == {1}

\* recovery that fails at open, the fatal state and its repair
NextFatal ==
    \/ open
    \/ crashTorn
    \/ tranbegin
    \/ \E key \in Keys, value \in FatalValues : put(key, value)
    \/ \E key \in Keys, value \in FatalValues : putkeep(key, value)
    \/ \E key \in Keys, value \in FatalValues : _putcat(key, value)
    \/ \E key \in Keys : out(key)
    \/ \E key \in Keys, num \in FatalNums : add_int(key, num)
    \/ vanish
    \/ \E bnum \in Bnums : optimize(bnum, 0, 0, 0)

SpecFatal == Init /\ [][NextFatal]_vars

\* iteration with generators, between calls that mutate or move the cursor
NextIter ==
    \/ open
    \/ \E key \in Keys, value \in TranValues : put(key, value)
    \/ \E key \in Keys : out(key)
    \/ keys
    \/ iterkeys
    \/ itervalues
    \/ iteritems
    \/ iterkeys_next
    \/ itervalues_next
    \/ iteritems_next

SpecIter == Init /\ [][NextIter]_vars

\* threads that share the handle
NextMutex ==
    \/ setmutex
    \/ open
    \/ \E t \in Threads, op \in ThreadOps, key \in Keys, value \in ThreadValues :
          T_call(t, op, key, value)
    \/ \E t \in Threads : T_lock(t)
    \/ \E t \in Threads : T_leave(t)
    \/ \E t \in Threads : T_tranbegin(t)
    \/ \E t \in Threads : T_trancommit(t)

SpecMutex == Init /\ [][NextMutex]_vars

\* every call that changes the record count, inside and outside transactions
NextCount ==
    \/ open
    \/ tranbegin
    \/ trancommit
    \/ tranabort
    \/ \E key \in Keys, value \in TranValues : put(key, value)
    \/ \E key \in Keys, value \in FatalValues : putkeep(key, value)
    \/ \E key \in Keys, value \in FatalValues : _putcat(key, value)
    \/ \E key \in Keys, value \in FatalValues : putasync(key, value)
    \/ \E key \in Keys : out(key)
    \/ \E key \in Keys, num \in FatalNums : add_int(key, num)
    \/ vanish

SpecCount == Init /\ [][NextCount]_vars

\* one generator of iterkeys, cut across by membership tests, by a second
\* iteration and by mutations
NextCursor ==
    \/ open
    \/ \E key \in Keys, value \in FatalValues : put(key, value)
    \/ \E key \in Keys : out(key)
    \/ iterkeys
    \/ iterkeys_next
    \/ iterkeys_second
    \/ \E key \in Keys : __contains__(key)

SpecCursor == Init /\ [][NextCursor]_vars

\* the calls on one key, on a sound handle, inside a transaction and after
\* a recovery that failed
NextFrame ==
    \/ open
    \/ tranbegin
    \/ crashTorn
    \/ \E key \in Keys, value \in FatalValues : put(key, value)
    \/ \E key \in Keys, value \in FatalValues : putkeep(key, value)
    \/ \E key \in Keys, value \in FatalValues : _putcat(key, value)
    \/ \E key \in Keys, value \in FatalValues : putasync(key, value)
    \/ \E key \in Keys : out(key)
    \/ \E key \in Keys, num \in FatalNums : add_int(key, num)
    \/ \E key \in Keys : get(key)
    \/ \E key \in Keys : vsiz(key)
    \/ \E prefix \in Prefixes : fwmkeys(prefix)

SpecFrame == Init /\ [][NextFrame]_vars

----------------------------------------------------------------------------
(* Properties *)

KeyOps == {"put", "putkeep", "putcat", "out", "add_int", "get", "get_int"}

\* C1: get(k) raises KeyError while k is not stored; after a successful
\* put(k, v), get(k) returns exactly v, also when k was stored before (the
\* value is overwritten); a call on another key leaves what get(k) returns
\* unchanged.
C1_GetAfterPut ==
    [][\A k \in Keys :
        /\ (db'.open /\ ~Stored(db', k)) => get_(db', k).exc = "KeyError"
        /\ \A v \in Values :
              (ret'.op = "put" /\ ret'.key = k /\ put(k, v) /\ ret'.exc = "") =>
                  get_(db', k) = Returned("get", k, FALSE, 0, v, <<>>)
        /\ (db.open /\ ret'.op \in KeyOps /\ ret'.key # k) =>
              get_(db', k) = get_(db, k)]_vars

\* a put has overwritten a stored value while another key is stored too
C1_Witness ==
    /\ ret.op = "put" /\ ret.exc = ""
    /\ Stored(prev, ret.key)
    /\ prev.recs # db.recs
    /\ db.rnum = 2

\* C2: putkeep(k, v) on a stored key returns false, raises nothing and
\* leaves the handle, the value and the record count as they were; on an
\* absent key it returns true and stores v as one more record.
C2_PutKeep ==
    [][\A k \in Keys, v \in Values :
        (ret'.op = "putkeep" /\ ret'.key = k /\ putkeep(k, v)) =>
            IF Stored(db, k)
            THEN /\ ret'.exc = "" /\ ret'.b = FALSE
                 /\ db' = db
                 /\ get_(db', k) = get_(db, k)
                 /\ len_(db') = len_(db)
            ELSE /\ ret'.exc = "" /\ ret'.b = TRUE
                 /\ get_(db', k) = Returned("get", k, FALSE, 0, v, <<>>)
                 /\ len_(db') = len_(db) + 1]_vars

\* a putkeep on a stored key has returned false
C2_Witness ==
    /\ ret.op = "putkeep" /\ ret.exc = "" /\ ret.b = FALSE
    /\ Stored(db, ret.key)
    /\ prev = Snapshot(db)

\* C3: when put(k, v) has stored a key that was absent, an out(k) that
\* follows it succeeds, get(k) raises KeyError again and len(db) is what it
\* was before the put.
C3_PutThenOut ==
    [][\A k \in Keys :
        (/\ ret.op = "put" /\ ret.key = k /\ ret.exc = ""
         /\ ~Stored(prev, k)
         /\ out(k)) =>
            /\ ret'.exc = ""
            /\ get_(db', k).exc = "KeyError"
            /\ len_(db') = len_(prev)]_vars

\* an out has removed a key and left another one stored
C3_Witness ==
    /\ ret.op = "out" /\ ret.exc = ""
    /\ Stored(prev, ret.key) /\ ~Stored(db, ret.key)
    /\ get_(db, ret.key).exc = "KeyError"
    /\ db.rnum = 1

\* C4: _putcat(k, v) on a stored key leaves get(k) equal to the old value
\* followed by v and the record count unchanged; on an absent key it leaves
\* the handle as put(k, v) would; so two _putcat on an absent key leave the
\* two values concatenated in one more record.
C4_PutCat ==
    [][\A k \in Keys, v \in Values :
        (ret'.op = "putcat" /\ ret'.key = k /\ _putcat(k, v)) =>
            /\ ret'.exc = ""
            /\ IF Stored(db, k)
               THEN /\ get_(db', k).exc = ""
                    /\ get_(db', k).s = get_(db, k).s \o v
                    /\ len_(db') = len_(db)
               ELSE /\ db' = hdb_put(db, serialize_obj(k)[1], serialize_obj(k)[2],
                                     serialize_obj(v)[1], serialize_obj(v)[2]).db
                    /\ get_(db', k).s = v
                    /\ len_(db') = len_(db) + 1
            /\ (ret.op = "putcat" /\ ret.key = k /\ ~Stored(prev, k)) =>
                  len_(db') = len_(prev) + 1]_vars

\* a _putcat has appended "b" to a stored "a"
C4_Witness ==
    /\ ret.op = "putcat" /\ ret.exc = ""
    /\ Stored(prev, ret.key)
    /\ prev.recs[serialize_obj(ret.key)[1]] = <<0>>
    /\ get_(db, ret.key).s = <<"a", "b">>

\* C9: add_int(key, num) returns the record's new value, the stored int
\* plus num or num itself for an absent key; get_int(key) then returns the
\* same value; the call raises only when the engine reports an error.
C9_AddIntReturnsNewValue ==
    [][\A k \in Keys, num \in Nums :
        (ret'.op = "add_int" /\ ret'.key = k /\ add_int(k, num)) =>
            LET ck == serialize_obj(k)
                eng == hdb_addint(db, ck[1], ck[2], num).result
                new == IF Stored(db, k) THEN get_int_(db, k).n + num ELSE num
            IN  /\ ret'.exc # "" => ~eng.ok
                /\ eng.ok => /\ ret'.exc = ""
                             /\ ret'.n = new
                             /\ get_int_(db', k).exc = ""
                             /\ get_int_(db', k).n = new]_vars

\* the part of C9 the binding keeps: whenever the new value is not 0
C9_HoldsWhenNonZero ==
    [][\A k \in Keys, num \in Nums :
        (ret'.op = "add_int" /\ ret'.key = k /\ add_int(k, num)) =>
            LET ck == serialize_obj(k)
                eng == hdb_addint(db, ck[1], ck[2], num).result
                new == IF Stored(db, k) THEN get_int_(db, k).n + num ELSE num
            IN  /\ (ret'.exc # "" /\ eng.ok) => eng.num = 0
                /\ (eng.ok /\ eng.num # 0) =>
                      /\ ret'.exc = ""
                      /\ ret'.n = new
                      /\ get_int_(db', k).n = new]_vars

\* C10: fwmkeys(prefix) raises nothing, returns the stored keys whose bytes
\* begin with the prefix's bytes, each once, and leaves the handle as it
\* was; the list is empty when no stored key matches.
C10_Fwmkeys ==
    [][\A p \in Prefixes :
        (ret'.op = "fwmkeys" /\ ret'.key = p /\ fwmkeys(p)) =>
            LET matching == {k \in Keys : /\ Stored(db, k)
                                          /\ IsPrefix(serialize_obj(p)[1],
                                                      serialize_obj(k)[1])}
            IN  /\ ret'.exc = ""
                /\ {ret'.l[i] : i \in 1..Len(ret'.l)} = matching
                /\ Len(ret'.l) = Cardinality(matching)
                /\ db' = db]_vars

\* fwmkeys("ba") has returned one of the two stored keys
C10_Witness ==
    /\ ret.op = "fwmkeys" /\ ret.exc = ""
    /\ ret.key = <<"b", "a">>
    /\ ret.l = << <<"b", "a">> >>
    /\ db.rnum = 2

\* fwmkeys has returned an empty list
C10_EmptyReached ==
    /\ ret.op = "fwmkeys" /\ ret.exc = ""
    /\ ret.l = <<>>

\* C5: a tranabort that succeeds leaves the records and the record count as
\* they were when the transaction began, so every key put since then that
\* was absent at the begin is absent again; a trancommit that succeeds
\* leaves the records as the calls of the transaction made them.
C5_TranAtomic ==
    [][/\ (tranabort /\ ret'.exc = "") =>
            /\ Snapshot(db') = begun
            /\ ~db'.tran /\ db'.log = <<>>
            /\ \A k \in Keys :
                  ~Stored(begun, k) => get_(db', k).exc = "KeyError"
       /\ (trancommit /\ ret'.exc = "") =>
            /\ Snapshot(db') = Snapshot(db)
            /\ ~db'.tran /\ db'.log = <<>>
            /\ \A k \in Keys : get_(db', k) = get_(db, k)]_vars

\* a tranabort has taken back two puts of new keys
C5_Witness ==
    /\ ret.op = "tranabort" /\ ret.exc = ""
    /\ prev.rnum = 2
    /\ db.rnum = 0
    /\ \A k \in Keys : get_(db, k).exc = "KeyError"

\* a trancommit has kept two puts of new keys
C5_CommitReached ==
    /\ ret.op = "trancommit" /\ ret.exc = ""
    /\ begun.rnum = 0
    /\ db.rnum = 2

\* C6: opening a file that a crash left with a pending log and the dirty
\* flag set gives the records and the record count of the moment the
\* transaction began, with the log gone and the flag cleared; a connected
\* handle outside a transaction never carries a pending log.
C6_CrashRecovery ==
    [][/\ (open /\ db.dirty /\ ret'.exc = "") =>
            /\ db'.open
            /\ Snapshot(db') = begun
            /\ ~db'.dirty /\ db'.log = <<>> /\ ~db'.tran
       /\ (db'.open /\ ~db'.tran) => (~db'.dirty /\ db'.log = <<>>)]_vars

\* an open has taken back the mutations of a transaction cut by a crash
C6_Witness ==
    /\ ret.op = "open" /\ ret.exc = ""
    /\ db.open
    /\ prev # Snapshot(db)
    /\ Snapshot(db) = begun

\* C7: __enter__ begins a transaction; __exit__ without an exception in
\* flight commits it, keeps every mutation of the block and raises nothing;
\* __exit__ with an exception in flight aborts it, gives back the records of
\* the entry and lets the exception reach the caller; each __exit__ makes the
\* one call and ends the transaction.
C7_WithBlock ==
    [][/\ (__enter__ /\ ret'.exc = "") =>
            /\ ~db.tran /\ db'.tran
            /\ depth' = depth + 1
            /\ begun' = Snapshot(db)
       /\ (__exit__ /\ ~exc) =>
            /\ ret'.call = "trancommit"
            /\ ret'.exc = ""
            /\ db' = hdb_trancommit(db).db
            /\ ~db'.tran
            /\ Snapshot(db') = Snapshot(db)
       /\ (__exit__ /\ exc) =>
            /\ ret'.call = "tranabort"
            /\ ret'.exc # ""
            /\ db' = hdb_tranabort(db).db
            /\ ~db'.tran
            /\ Snapshot(db') = begun]_vars

\* a with-block has ended with an exception and its mutations are undone
C7_Witness ==
    /\ ret.op = "__exit__" /\ ret.call = "tranabort"
    /\ ret.exc = "Exception"
    /\ prev # Snapshot(db)
    /\ Snapshot(db) = begun
    /\ depth = 0

\* a with-block has ended normally and its mutations are kept
C7_CommitReached ==
    /\ ret.op = "__exit__" /\ ret.call = "trancommit"
    /\ ret.exc = ""
    /\ Snapshot(db) # begun
    /\ depth = 0

\* C8: a transaction becomes active only from idle, by tranbegin or
\* __enter__; either of them on a handle whose transaction is active raises
\* and leaves the handle, its undo log, the records and the block depth as
\* they were; no with-block is ever open inside another one.
C8_NoNestedTransaction ==
    [][/\ ((tranbegin \/ __enter__) /\ db.tran) =>
            /\ ret'.exc = "TCException"
            /\ db' = db
            /\ depth' = depth
            /\ begun' = begun
       /\ (~db.tran /\ db'.tran) => ret'.op \in {"tranbegin", "__enter__"}
       /\ (db.tran /\ db'.tran) => begun' = begun
       /\ depth' <= 1
       /\ depth' = 1 => db'.tran]_vars

\* a with statement inside a with-block has raised at its __enter__
C8_Witness ==
    /\ ret.op = "__enter__" /\ ret.exc = "TCException"
    /\ depth = 1
    /\ db.tran
    /\ Len(db.log) > 0

\* C11: vanish() succeeds and leaves the store empty: the record count is 0,
\* get of every key raises KeyError and a full iteration yields no key; a
\* vanish that follows a vanish succeeds again and changes nothing.
C11_VanishIdempotent ==
    [][(ret'.op = "vanish" /\ vanish) =>
          /\ ret'.exc = ""
          /\ len_(db') = 0
          /\ \A key \in Keys : get_(db', key).exc = "KeyError"
          /\ iterkeys_(db').exc = "" /\ iterkeys_(db').l = <<>>
          /\ (ret.op = "vanish" /\ ret.exc = "" => db' = db)]_vars

\* vanish has emptied a store that held every key
C11_Witness == ret.op = "vanish" /\ ret.exc = "" /\ prev.rnum = Len(KeyOrder)

\* vanish was called on a store that a vanish had emptied
C11_SecondReached ==
    ret.op = "vanish" /\ ret.exc = "" /\ prev.rnum = 0 /\ db.fbn = 1

\* C12: defrag(step) succeeds; with step > 0 it takes at most step free
\* blocks out of the pool, with step <= 0 all of them; nothing but the pool
\* changes, so every record and the record count are as before, and get and
\* put give afterwards what they would have given without the defrag.
C12_Defrag ==
    [][\A step \in Steps :
          (ret'.op = "defrag" /\ defrag(step)) =>
             /\ ret'.exc = ""
             /\ step > 0 => db.fbn - db'.fbn \in 0..step
             /\ step <= 0 => db'.fbn = 0
             /\ db' = [db EXCEPT !.fbn = db'.fbn]
             /\ len_(db') = len_(db)
             /\ \A key \in Keys :
                   /\ get_(db', key) = get_(db, key)
                   /\ \A value \in Values :
                         LET ck == serialize_obj(key)
                             cv == serialize_obj(value)
                             with == hdb_put(db', ck[1], ck[2], cv[1], cv[2])
                             without == hdb_put(db, ck[1], ck[2], cv[1], cv[2])
                         IN  /\ with.result = without.result
                             /\ Snapshot(with.db) = Snapshot(without.db)]_vars

\* a defrag took one free block and left another in the pool
C12_Witness == ret.op = "defrag" /\ ret.exc = "" /\ db.fbn = 1

\* a defrag emptied the pool of a store that holds a record
C12_StoredReached ==
    ret.op = "defrag" /\ ret.exc = "" /\ db.fbn = 0 /\ db.rnum > 0

\* C16: out(k) and vsiz(k) of a key that is not stored raise TCException
\* with the NotFound message and leave the handle (records, record count,
\* free-block pool) unchanged; vsiz(k) of a stored key returns the length of
\* its value, 0 for the empty value.
C16_AbsentKey ==
    [][\A key \in Keys :
          /\ (ret'.op = "out" /\ ret'.key = key /\ out(key) /\ ~Stored(db, key)) =>
                /\ ret'.exc = "TCException"
                /\ ret'.msg = hdb_errmsg("NotFound")
                /\ db' = db
          /\ (ret'.op = "vsiz" /\ ret'.key = key /\ vsiz(key)) =>
                /\ db' = db
                /\ IF Stored(db, key)
                   THEN /\ ret'.exc = ""
                        /\ ret'.n = Len(get_(db, key).s)
                        /\ ret'.n = Len(db.recs[serialize_obj(key)[1]])
                   ELSE /\ ret'.exc = "TCException"
                        /\ ret'.msg = hdb_errmsg("NotFound")]_vars

\* vsiz returned 0 for a key that holds the empty value, while the pool
\* tracks a free block
C16_EmptyValueReached ==
    /\ ret.op = "vsiz" /\ ret.exc = "" /\ ret.n = 0
    /\ Stored(db, ret.key)
    /\ db.fbn > 0

\* out of an absent key was refused while the pool tracks a free block
C16_Witness ==
    ret.op = "out" /\ ret.exc = "TCException" /\ db.fbn > 0 /\ db.rnum > 0

\* C17: add_int on a key whose stored value does not have the width of a
\* native int raises TCException with the TypeMismatch message; add_int whose
\* sum leaves the range of the native int raises TCException with the
\* Overflow message; in both cases the handle, so the stored record and the
\* record count, is unchanged: the sum is never stored wrapped.
C17_AddIntErrors ==
    [][\A key \in Keys, num \in Nums :
          (ret'.op = "add_int" /\ ret'.key = key /\ add_int(key, num)
           /\ Stored(db, key)) =>
             LET width == Len(db.recs[serialize_obj(key)[1]])
                 sum == get_int_(db, key).n + num
             IN  /\ width # IntWidth =>
                       /\ ret'.exc = "TCException"
                       /\ ret'.msg = hdb_errmsg("TypeMismatch")
                       /\ db' = db
                 /\ (width = IntWidth /\ (sum < IntMin \/ sum > IntMax)) =>
                       /\ ret'.exc = "TCException"
                       /\ ret'.msg = hdb_errmsg("Overflow")
                       /\ db' = db]_vars

\* add_int was refused for an overflow of the stored int
C17_Witness ==
    /\ ret.op = "add_int" /\ ret.exc = "TCException"
    /\ ret.msg = hdb_errmsg("Overflow")
    /\ Stored(db, ret.key)
    /\ get_int_(db, ret.key).n \in {IntMin, IntMax}

\* add_int was refused on a value that is not a native int
C17_MismatchReached ==
    /\ ret.op = "add_int" /\ ret.exc = "TCException"
    /\ ret.msg = hdb_errmsg("TypeMismatch")
    /\ Stored(db, ret.key)

\* C18: tranvoid() on an active transaction succeeds, discards the undo log
\* without replay, so the records and the count stay as the transaction's
\* mutations left them, and the handle is idle again: a begin is accepted, and
\* a tranabort that follows is refused and changes nothing.
C18_TranVoid ==
    [][/\ (ret'.op = "tranvoid" /\ tranvoid /\ db.tran) =>
             /\ ret'.exc = ""
             /\ Snapshot(db') = Snapshot(db)
             /\ ~db'.tran /\ db'.log = <<>>
             /\ tranbegin_(db').exc = ""
             /\ tranabort_(db').exc = "TCException"
             /\ tranabort_(db').db = db'
       /\ (ret.op = "tranvoid" /\ ret.exc = "" /\ ret'.op = "tranabort" /\ tranabort) =>
             /\ ret'.exc = "TCException"
             /\ db' = db]_vars

\* tranvoid ended a transaction whose mutations stay in the store
C18_Witness ==
    /\ ret.op = "tranvoid" /\ ret.exc = ""
    /\ prev = Snapshot(db)
    /\ Snapshot(db) # begun

\* a tranabort was refused on an idle handle that keeps a transaction's
\* mutations
C18_AbortReached ==
    /\ ret.op = "tranabort" /\ ret.exc = "TCException"
    /\ Snapshot(db) # begun

\* C20: optimize(bnum, apow, fpow, opts) succeeds, afterwards bnum() reports
\* the bucket number that was asked for, the pool holds no free block, and
\* the records and the record count are as before.
C20_Optimize ==
    [][\A bnum \in Bnums, opts \in Opts :
          (ret'.op = "optimize" /\ optimize(bnum, 0, 0, opts)) =>
             /\ ret'.exc = ""
             /\ bnum > 0 => bnum_(db') = bnum
             /\ db'.fbn = 0
             /\ Snapshot(db') = Snapshot(db)]_vars

\* C20, for the call without tuning values: optimize() succeeds, leaves no
\* free block and keeps the bucket number, the records and the count; and
\* no call of optimize changes the records or the count.
C20_HoldsWithoutTuning ==
    [][/\ (ret'.op = "optimize" /\ optimize(0, 0, 0, 0)) =>
             /\ ret'.exc = ""
             /\ bnum_(db') = bnum_(db)
             /\ db'.fbn = 0
             /\ Snapshot(db') = Snapshot(db)
       /\ \A bnum \in Bnums, opts \in Opts :
             (ret'.op = "optimize" /\ optimize(bnum, 0, 0, opts)) =>
                Snapshot(db') = Snapshot(db)]_vars

\* optimize() compacted a store that holds a record
C20_DefaultsReached ==
    ret.op = "optimize" /\ ret.exc = "" /\ db.rnum > 0

\* the handle's flags() have FFATAL
Fatal(d) == HasFlag(flags_(d), FFATAL)

\* C19: an open whose recovery fails succeeds with a handle whose flags()
\* have FFATAL.  While flags() have FFATAL, put, _putcat, out, add_int and
\* tranbegin raise TCException, putkeep returns False, and each leaves the
\* handle unchanged; FFATAL goes only with a vanish or an optimize that
\* succeeds, and vanish() and optimize() do take it away.
C19_FatalLatch ==
    [][/\ (ret'.op = "open" /\ open /\ db.dirty /\ db.torn) =>
             ret'.exc = "" /\ Fatal(db')
       /\ Fatal(db) =>
             /\ \A key \in Keys, value \in FatalValues :
                   /\ (ret'.op = "put" /\ put(key, value)) =>
                         ret'.exc = "TCException" /\ db' = db
                   /\ (ret'.op = "putkeep" /\ putkeep(key, value)) =>
                         ret'.exc = "" /\ ~ret'.b /\ db' = db
                   /\ (ret'.op = "putcat" /\ _putcat(key, value)) =>
                         ret'.exc = "TCException" /\ db' = db
             /\ \A key \in Keys :
                   (ret'.op = "out" /\ out(key)) =>
                      ret'.exc = "TCException" /\ db' = db
             /\ \A key \in Keys, num \in FatalNums :
                   (ret'.op = "add_int" /\ add_int(key, num)) =>
                      ret'.exc = "TCException" /\ db' = db
             /\ (ret'.op = "tranbegin" /\ tranbegin) =>
                   ret'.exc = "TCException" /\ db' = db
             /\ ~Fatal(db') =>
                   ret'.op \in {"vanish", "optimize"} /\ ret'.exc = ""
             /\ (ret'.op = "vanish" /\ vanish) => ~Fatal(db')
             /\ (ret'.op = "optimize" /\ optimize(0, 0, 0, 0)) => ~Fatal(db')]_vars

\* a put was rejected on a handle in the fatal state that holds a record
C19_Witness ==
    /\ db.open /\ Fatal(db)
    /\ ret.op = "put" /\ ret.exc = "TCException"
    /\ db.rnum > 0

\* a handle that had failed to recover was repaired by optimize()
C19_RepairReached ==
    /\ db.open /\ ~Fatal(db) /\ ~db.dirty
    /\ ret.op = "optimize" /\ ret.exc = ""
    /\ Snapshot(db) # begun

\* the keys ks are the stored keys of d, each once
AllOnce(ks, d) ==
    /\ Len(ks) = len_(d)
    /\ \A i, j \in 1..Len(ks) : ks[i] = ks[j] => i = j
    /\ \A key \in Keys : get_(d, key).exc = "" <=> \E i \in 1..Len(ks) : ks[i] = key

\* C15: an iteration that no call cut across between its iterinit and its end
\* (no call that changed the records, none that moved the cursor) has, when
\* the generator stops, yielded every stored key exactly once, as many keys
\* as the record count; iteritems has yielded for each key the pair
\* (key, get(key)), itervalues the values get(key) of the keys in the order
\* of iterkeys; and while it runs it never yields a key twice.
C15_Iteration ==
    [][/\ (gen.state \in {"created", "running"} /\ gen'.state = "done" /\ gen'.clean) =>
             /\ gen'.kind = "keys" =>
                   AllOnce(gen'.ks, db') /\ gen'.ks = iterkeys_(db').l
             /\ gen'.kind = "items" =>
                   /\ AllOnce(gen'.ks, db')
                   /\ gen'.ks = iterkeys_(db').l
                   /\ Len(gen'.vs) = Len(gen'.ks)
                   /\ \A i \in 1..Len(gen'.ks) :
                         gen'.vs[i] = get_(db', gen'.ks[i]).s
             /\ gen'.kind = "values" =>
                   /\ Len(gen'.vs) = len_(db')
                   /\ \A i \in 1..Len(gen'.vs) :
                         gen'.vs[i] = get_(db', iterkeys_(db').l[i]).s
       /\ (gen'.state = "running" /\ gen'.clean) =>
             /\ Len(gen'.ks) <= len_(db') /\ Len(gen'.vs) <= len_(db')
             /\ \A i, j \in 1..Len(gen'.ks) : gen'.ks[i] = gen'.ks[j] => i = j
       /\ gen'.state # "raised"]_vars

\* an undisturbed generator of iteritems has stopped after every key of a
\* store whose two records hold different values
C15_Witness ==
    /\ gen.kind = "items" /\ gen.state = "done" /\ gen.clean
    /\ Len(gen.ks) = Len(KeyOrder)
    /\ gen.vs[1] # gen.vs[2]

\* an undisturbed generator of itervalues has stopped after two values
C15_ValuesReached ==
    /\ gen.kind = "values" /\ gen.state = "done" /\ gen.clean
    /\ Len(gen.vs) = Len(KeyOrder)
    /\ gen.vs[1] # gen.vs[2]

\* an undisturbed generator of iterkeys has stopped after two keys
C15_KeysReached ==
    /\ gen.kind = "keys" /\ gen.state = "done" /\ gen.clean
    /\ Len(gen.ks) = Len(KeyOrder)

\* a generator cut across by a call has stopped short of the stored keys
C15_DisturbedReached ==
    /\ gen.kind = "keys" /\ gen.state = "done" /\ ~gen.clean
    /\ Len(gen.ks) < len_(db)

\* threads inside a mutating call of the engine, and the owner of the open
\* transaction; threads inside a reading call
Writers(h) ==
    {t \in Threads : h.t[t].pc = "in" /\ h.t[t].op \in Mutating}
        \cup (IF h.tran # 0 THEN {h.tran} ELSE {})
Readers(h) == {t \in Threads : h.t[t].pc = "in" /\ h.t[t].op = "get"}

\* C13: on a handle for which setmutex() returned True, opened with the
\* default (locking) mode, at most one thread is inside a mutating call or
\* owns the open transaction, and no other thread is inside get() meanwhile;
\* every call leaves the engine with the handle as it found it on entry, so
\* its effect and its result are those of the call made alone on the current
\* state: the calls act in the serial order in which they leave.
C13_Mutex ==
    [][thr'.asked =>
          /\ Cardinality(Writers(thr')) <= 1
          /\ \A w \in Writers(thr'), r \in Readers(thr') : r = w
          /\ \A t \in Threads :
                (thr.t[t].pc = "in" /\ thr'.t[t].pc = "idle") =>
                   /\ thr.t[t].seen = db
                   /\ db' = ThreadCall(db, thr.t[t]).db
                   /\ ThreadCall(thr.t[t].seen, thr.t[t]).got
                         = ThreadCall(db, thr.t[t]).got]_vars

\* with the mutex, thread 1 is inside put while thread 2 waits to put the
\* same key
C13_Witness ==
    /\ thr.asked /\ db.open
    /\ thr.t[1].pc = "in" /\ thr.t[1].op = "put"
    /\ thr.t[2].pc = "wait" /\ thr.t[2].op = "put"
    /\ thr.t[1].key = thr.t[2].key /\ thr.t[1].value # thr.t[2].value
    /\ db.rnum > 0

\* with the mutex, both threads are inside get at once
C13_ReadersReached ==
    /\ thr.asked /\ db.open
    /\ Readers(thr) = Threads

\* C21: on a connected handle, after every sequence of put, putkeep, putcat,
\* putasync, out, add_int, vanish, trancommit and tranabort, len(db) is the
\* number of distinct keys for which get succeeds.
C21_LenCountsKeys ==
    db.open => len_(db) = Cardinality({key \in Keys : get_(db, key).exc = ""})

\* a tranabort has brought back both records that a vanish had removed
C21_Witness ==
    /\ db.open
    /\ ret.op = "tranabort" /\ ret.exc = ""
    /\ prev.rnum = 0
    /\ len_(db) = Len(KeyOrder)

\* an out has left one of two records
C21_OutReached ==
    /\ db.open
    /\ ret.op = "out" /\ ret.exc = ""
    /\ prev.rnum = Len(KeyOrder)
    /\ len_(db) = Len(KeyOrder) - 1

C22_SecondReached ==
    /\ ret.op = "iterkeys" /\ ret.exc = "" /\ ret.key = KeyOrder[1]
    /\ gen.kind = "keys" /\ gen.state = "running"
    /\ gen.ks = <<KeyOrder[1], KeyOrder[2], KeyOrder[2]>>

\* a membership test of an absent key returned false
C22_AbsentReached ==
    /\ ret.op = "__contains__" /\ ~ret.b
    /\ get_(db, ret.key).exc # ""
    /\ len_(db) > 0

\* the calls that write one key, and a call of one of them on key
FrameOps == {"put", "putkeep", "putcat", "putasync", "out", "add_int"}

OnKey(key) ==
    \/ \E value \in FatalValues : put(key, value)
    \/ \E value \in FatalValues : putkeep(key, value)
    \/ \E value \in FatalValues : _putcat(key, value)
    \/ \E value \in FatalValues : putasync(key, value)
    \/ out(key)
    \/ \E num \in FatalNums : add_int(key, num)

\* the calls that read
OnNone ==
    \/ \E key \in Keys : get(key)
    \/ \E key \in Keys : vsiz(key)
    \/ \E prefix \in Prefixes : fwmkeys(prefix)

\* C23: put, putkeep, putcat, putasync, out and add_int on key k, returning
\* or raising, leave every record of another key as it was, add no record
\* and remove none under another key, so get and vsiz of every key j # k
\* answer as before; get, vsiz and fwmkeys leave all records and the record
\* count as they were.
C23_Frame ==
    [][/\ \A key \in Keys :
             (ret'.op \in FrameOps /\ ret'.key = key /\ OnKey(key)) =>
                LET k == serialize_obj(key)[1]
                IN  /\ DOMAIN db'.recs \ {k} = DOMAIN db.recs \ {k}
                    /\ \A j \in DOMAIN db.recs \ {k} : db'.recs[j] = db.recs[j]
                    /\ \A other \in Keys \ {key} :
                          /\ get_(db', other) = get_(db, other)
                          /\ vsiz_(db', other) = vsiz_(db, other)
       /\ (ret'.op \in {"get", "vsiz", "fwmkeys"} /\ OnNone) =>
             Snapshot(db') = Snapshot(db)]_vars

\* a putasync has replaced the value of one key while the other key holds a
\* different value
C23_Witness ==
    /\ ret.op = "putasync" /\ ret.exc = ""
    /\ len_(db) = Len(KeyOrder)
    /\ prev.rnum = len_(db) /\ prev.recs # db.recs
    /\ \E other \in Keys \ {ret.key} : get_(db, other).s # get_(db, ret.key).s

\* a put on one key was refused while the other key was stored
C23_RefusedReached ==
    /\ ret.op = "put" /\ ret.exc = "TCException"
    /\ db.open /\ ~Stored(db, ret.key)
    /\ \E other \in Keys \ {ret.key} : Stored(db, other)

\* a read was answered on a store of two records
C23_ReadReached ==
    /\ ret.op = "vsiz" /\ ret.exc = ""
    /\ len_(db) = Len(KeyOrder)

====
